---- MODULE Spec2Model ----
(***************************************************************************)
(* Movie submission workflow of api/serializers/movie.py:                  *)
(* SubmissionSerializer.create / update hand the request payload to        *)
(* MovieSerializer.create / update, which write Movie, Order,              *)
(* MovieLanguage, CrewMember and CrewMemberRequest rows.                   *)
(* Review workflow: MovieReviewDetailSerializer.create / update write      *)
(* MovieRateReview rows and recompute Movie.audience_rating.               *)
(* Crew requests: CrewMemberRequestSerializer.create.                      *)
(***************************************************************************)
EXTENDS Integers, Sequences, FiniteSets, TLC

VARIABLES users, profiles, languages, movies, orders, crewMembers,
          crewMemberRequests, gatewayOrders, last, ops,
          reviews, audience_rating, now, calls, lastReview

vars == <<users, profiles, languages, movies, orders, crewMembers,
          crewMemberRequests, gatewayOrders, last, ops,
          reviews, audience_rating, now, calls, lastReview>>

\* the review workflow's part of the state: MovieRateReview rows, the
\* audience_rating column of the Movie rows, the clock, the requests in flight
reviewVars == <<reviews, audience_rating, now, calls, lastReview>>

(* ---------------------------------------------------------------- bounds *)
MaxMovies == 2
MaxOps == 2
\* review requests handled, review rows stored, seconds on the clock
MaxReviewOps == 3
MaxReviews == 2
MaxTime == 19

(* ------------------------------------------------------- optional values *)
\* Python None / a value that is set
None == <<>>
Some(v) == <<v>>

(* ------------------------------------------------------------------ text *)
\* A name as the client types it: its letters (base), whether it has upper-case
\* letters (cap) and whether it has surrounding whitespace (pad).
Nm(b) == [base |-> b, cap |-> FALSE, pad |-> FALSE]
Typed(b, c, p) == [base |-> b, cap |-> c, pad |-> p]
\* str.lower()
lower(n) == [n EXCEPT !.cap = FALSE]
\* str.strip()
strip(n) == [n EXCEPT !.pad = FALSE]

(* ------------------------------------------------------ rows of fixtures *)
\* registered users that have a Profile and submit movies
Creators == {"test@example.com", "second@example.com"}
\* an e-mail address no user is registered under
NewEmail == "new@example.com"
Emails == Creators \cup {NewEmail}
\* Role rows
Roles == {"Director", "Editor", "Actor"}
\* Genre rows (stored lower-cased)
GenreRows == {Nm("drama"), Nm("comedy")}
\* Package rows, with Package.amount
PackageRows == {Nm("basic"), Nm("gold")}
PackageAmount(package) == IF package = Nm("basic") THEN 100 ELSE 500

\* CrewMemberRequest.state when create() passes none: the field's default
DefaultRequestState == "SUBMITTED"

\* Movie.audience_rating of a movie nobody has rated: 0.0
Unrated == Some(<<0, 1>>)

(* --------------------------------------------------------------- the store *)
\* The relational store as one value, for the handlers to transform.
DB == [users |-> users, profiles |-> profiles, languages |-> languages,
       movies |-> movies, orders |-> orders, crewMembers |-> crewMembers,
       crewMemberRequests |-> crewMemberRequests]

Commit(d) ==
    /\ users' = d.users
    /\ profiles' = d.profiles
    /\ languages' = d.languages
    /\ movies' = d.movies
    /\ orders' = d.orders
    /\ crewMembers' = d.crewMembers
    /\ crewMemberRequests' = d.crewMemberRequests

\* The enclosing database transaction: a handler that raises leaves the store
\* as it was before the handler ran.
Rollback(before, attempted) == before

\* outcome of a handler: err = "" when it returned, db the store it has written
Ok(d) == [err |-> "", db |-> d]
Raise(e, d) == [err |-> e, db |-> d]
\* ... and whether it got as far as its last statement, the gateway orders it
\* made and the gateway's answer to it
Reached(gw, rzp) == [reached |-> TRUE, gateway |-> gw, rzp |-> rzp]
NotReached == [reached |-> FALSE, gateway |-> 0, rzp |-> "none"]

DirectorMissing == "Director must be provided"

(* --------------------------------------------------------------- payloads *)
\* A request payload: `has` holds the keys that are present.
EmptyDict == [keys |-> {}, email |-> "none"]
DirectorData(e) == [keys |-> {"first_name", "last_name", "email"}, email |-> e]

Payload(has, lang, genres, roles, director, package, approved) ==
    [has |-> has, lang |-> lang, genres |-> genres, roles |-> roles,
     director |-> director, package |-> package, approved |-> approved]

\* dict.pop(key, default)
Pop(p, key, default) == IF key \in p.has THEN p[key] ELSE default

SeqToSet(s) == {s[i] : i \in DOMAIN s}

(* ------------------------------------------------- MovieLanguageSerializer *)
MovieLanguageSerializer_validate_name(name) == lower(strip(name))

\* get the row named `name`, or create it; the row is identified by its name
MovieLanguageSerializer_create(d, name) ==
    [d EXCEPT !.languages = @ \cup {name}]

(* ---------------------------------------------------------- MovieSerializer *)
_get_or_create_genres(d, genres_data) ==
    LET names == {lower(strip(genres_data[i])) : i \in DOMAIN genres_data}
    IN  {g \in GenreRows : g \in names}

\* variant: a presence test that lets every movie through
_is_director_present_always(d, movie) == TRUE

_is_director_present(d, movie) ==
    \E c \in d.crewMembers : c.movie = movie /\ c.role = "Director"

\* variant: the new Director row is added without removing the old one
_attach_director_role_keeping(d, director_data, creator, movie, creator_is_director) ==
    LET data == IF creator_is_director
                THEN [keys |-> director_data.keys \cup {"email"}, email |-> creator]
                ELSE director_data
    IN  IF data.keys = {} THEN Ok(d)
        ELSE LET email == data.email
                 d1 == [d EXCEPT !.users = @ \cup {email},
                                 !.profiles = @ \cup {email}]
             IN  Ok([d1 EXCEPT !.crewMembers = @ \cup
                       {[profile |-> email, movie |-> movie, role |-> "Director"]}])

\* variant: the director contact of the payload is used even when the creator
\* is the director
_attach_director_role_as_given(d, director_data, creator, movie, creator_is_director) ==
    IF director_data.keys = {} THEN Ok(d)
    ELSE LET email == director_data.email
             d1 == [d EXCEPT !.users = @ \cup {email},
                             !.profiles = @ \cup {email}]
             kept == {c \in d1.crewMembers :
                        ~(c.role = "Director" /\ c.movie = movie)}
         IN  Ok([d1 EXCEPT !.crewMembers = kept \cup
                   {[profile |-> email, movie |-> movie, role |-> "Director"]}])

_attach_director_role(d, director_data, creator, movie, creator_is_director) ==
    LET data == IF creator_is_director
                THEN [keys |-> director_data.keys \cup {"email"}, email |-> creator]
                ELSE director_data
    IN  IF data.keys = {} THEN Ok(d)
        ELSE LET email == data.email
                 exists == email \in d.profiles
             IN  IF ~exists /\ email \in d.users
                 THEN Raise("IntegrityError", d)
                 ELSE LET d1 == IF exists THEN d
                                ELSE [d EXCEPT !.users = @ \cup {email},
                                               !.profiles = @ \cup {email}]
                          kept == {c \in d1.crewMembers :
                                     ~(c.role = "Director" /\ c.movie = movie)}
                      IN  Ok([d1 EXCEPT !.crewMembers = kept \cup
                                {[profile |-> email, movie |-> movie,
                                  role |-> "Director"]}])

_attach_creator_roles(d, creator_roles_data, creator, movie, creator_is_director) ==
    LET creator_role_names == SeqToSet(creator_roles_data) \ {"Director"}
        creator_roles == {r \in Roles : r \in creator_role_names}
    IN  IF creator \notin d.profiles THEN Raise("Profile.DoesNotExist", d)
        ELSE IF creator_is_director
        THEN LET kept == {c \in d.crewMembers :
                            ~(c.movie = movie /\ c.profile = creator
                              /\ c.role # "Director")}
             IN  Ok([d EXCEPT !.crewMembers = kept \cup
                       {[profile |-> creator, movie |-> movie, role |-> r] :
                          r \in creator_roles}])
        ELSE LET kept == {q \in d.crewMemberRequests : q.movie # movie}
             IN  Ok([d EXCEPT !.crewMemberRequests = kept \cup
                       {[requestor |-> creator, movie |-> movie, user |-> creator,
                         role |-> r, state |-> DefaultRequestState] :
                          r \in creator_roles}])

MovieSerializer_create(d, user, p) ==
    LET genres_data == p.genres
        creator_roles == Pop(p, "roles", <<>>)
        director_data == Pop(p, "director", EmptyDict)
        d1 == MovieLanguageSerializer_create(d, p.lang)
        d2 == [d1 EXCEPT !.orders = Append(@,
                 [owner |-> user, order_id |-> None, amount |-> None,
                  receipt_number |-> None])]
        creator_is_director == \E i \in DOMAIN creator_roles :
                                   creator_roles[i] = "Director"
        approved == IF creator_is_director THEN Some(TRUE)
                    ELSE IF "approved" \in p.has THEN Some(p.approved)
                    ELSE None
        d3 == [d2 EXCEPT !.movies = Append(@,
                 [state |-> "CREATED", lang |-> p.lang, order |-> Len(d2.orders),
                  approved |-> approved, package |-> None, genres |-> {}])]
        movie == Len(d3.movies)
        d4 == [d3 EXCEPT !.movies[movie].genres =
                 _get_or_create_genres(d3, genres_data)]
        r5 == _attach_creator_roles(d4, creator_roles, user, movie,
                                    creator_is_director)
        r6 == _attach_director_role(r5.db, director_data, user, movie,
                                    creator_is_director)
    IN  IF r5.err # "" THEN r5 @@ NotReached
        ELSE IF r6.err # "" THEN r6 @@ NotReached
        ELSE IF ~_is_director_present(r6.db, movie)
        THEN Raise(DirectorMissing, r6.db) @@ Reached(0, "none")
        ELSE Ok(r6.db) @@ Reached(0, "none")

\* movie.crewmember_set.all(): the CrewMember rows of the movie
crewmember_set(d, movie) == {c \in d.crewMembers : c.movie = movie}

\* the orders in which a query may return the rows S
Orderings(S) ==
    {f \in [1..Cardinality(S) -> S] :
        \A i, j \in 1..Cardinality(S) : f[i] = f[j] => i = j}

\* group_by_user[crewmember.profile].append(crewmember.role), the dict held as
\* its entries in insertion order
Group(data, crewmember) ==
    IF \E i \in DOMAIN data : data[i].profile = crewmember.profile
    THEN [i \in DOMAIN data |->
            IF data[i].profile = crewmember.profile
            THEN [data[i] EXCEPT !.roles = Append(@, crewmember.role)]
            ELSE data[i]]
    ELSE Append(data, [profile |-> crewmember.profile,
                       roles |-> <<crewmember.role>>])

RECURSIVE GroupAll(_, _)
GroupAll(data, rows) ==
    IF rows = <<>> THEN data
    ELSE GroupAll(Group(data, Head(rows)), Tail(rows))

\* variant: one entry for every row
get_crew_ungrouped(rows) ==
    [i \in DOMAIN rows |-> [profile |-> rows[i].profile,
                            roles |-> <<rows[i].role>>]]

\* the crew of the movie detail, from the rows in the order they are returned
get_crew(rows) == GroupAll(<<>>, rows)

\* variant: the validator without the test of the package already set
validate_package_unguarded(d, instance, package) ==
    IF lower(strip(package)) \notin PackageRows
    THEN "Invalid Package Selected"
    ELSE ""

\* the field validator the framework runs on the payload before update()
validate_package(d, instance, package) ==
    IF d.movies[instance].package # None
    THEN "Cannot update package"
    ELSE IF lower(strip(package)) \notin PackageRows
    THEN "Invalid Package Selected"
    ELSE ""

\* SubmissionSerializer.validate_payload on an update: the error, "" if valid
validate_payload(d, instance, p) ==
    IF "package" \in p.has THEN validate_package(d, instance, p.package) ELSE ""

(* --------------------------------------------------------- payment gateway *)
\* What the gateway does with one order-creation call.
GatewayOutcomes == {"created", "failed", "raises"}

\* variant: the response is returned whatever its status
create_rzp_order_unchecked(d, package, owner, rzp, next_id) ==
    IF rzp = "raises" THEN [err |-> "gateway exception", order |-> None]
    ELSE [err |-> "", order |-> Some([id |-> next_id,
                                      amount |-> PackageAmount(package),
                                      receipt |-> <<owner, 0>>, status |-> rzp])]

\* [err, order]: the gateway's response, or the exception
create_rzp_order(d, package, owner, rzp, next_id) ==
    LET existing_orders == Cardinality({i \in DOMAIN d.orders :
                                          d.orders[i].owner = owner})
        receipt_number == <<owner, existing_orders>>
        rp_order_res == [id |-> next_id, amount |-> PackageAmount(package),
                         receipt |-> receipt_number, status |-> rzp]
    IN  IF rzp = "raises" THEN [err |-> "gateway exception", order |-> None]
        ELSE IF rp_order_res.status # "created"
        THEN [err |-> "Error creating Razorpay order", order |-> None]
        ELSE [err |-> "", order |-> Some(rp_order_res)]

_update_order_details(d, movie, rzp_order) ==
    IF rzp_order = None THEN d
    ELSE LET o == d.movies[movie].order
         IN  [d EXCEPT !.orders[o].order_id = Some(rzp_order[1].id),
                       !.orders[o].amount = Some(rzp_order[1].amount),
                       !.orders[o].receipt_number = Some(rzp_order[1].receipt)]

MovieSerializer_update(d, movie, user, p, rzp, next_id) ==
    LET has_package == "package" \in p.has
        package == IF has_package THEN Some(lower(strip(p.package)))
                   ELSE d.movies[movie].package
        g == IF has_package
             THEN create_rzp_order(d, package[1], d.orders[d.movies[movie].order].owner,
                                   rzp, next_id)
             ELSE [err |-> "", order |-> None]
        d1 == _update_order_details(d, movie, g.order)
        d2 == IF "lang" \in p.has THEN MovieLanguageSerializer_create(d1, p.lang)
              ELSE d1
        director_data == Pop(p, "director", EmptyDict)
        creator_roles == Pop(p, "roles", <<>>)
        creator_is_director == \E i \in DOMAIN creator_roles :
                                   creator_roles[i] = "Director"
        approved == IF "approved" \in p.has THEN Some(p.approved)
                    ELSE IF creator_is_director THEN Some(TRUE)
                    ELSE d.movies[movie].approved
        r3 == IF creator_roles # <<>>
              THEN _attach_creator_roles(d2, creator_roles, user, movie,
                                         creator_is_director)
              ELSE Ok(d2)
        r4 == IF director_data.keys # {}
              THEN _attach_director_role(r3.db, director_data, user, movie,
                                         creator_is_director)
              ELSE Ok(r3.db)
        \* super().update(): the remaining fields and the package are saved
        d5 == [r4.db EXCEPT !.movies[movie].package = package,
                            !.movies[movie].approved = approved,
                            !.movies[movie].lang =
                                IF "lang" \in p.has THEN p.lang ELSE @]
        genres_data == Pop(p, "genres", <<>>)
        d6 == IF genres_data # <<>>
              THEN [d5 EXCEPT !.movies[movie].genres =
                                  _get_or_create_genres(d5, genres_data)]
              ELSE d5
        gw == IF has_package /\ g.err = "" THEN 1 ELSE 0
        seen == IF has_package THEN rzp ELSE "none"
    IN  IF g.err # ""
        THEN Raise(g.err, d) @@ [reached |-> FALSE, gateway |-> 0, rzp |-> seen]
        ELSE IF r3.err # ""
        THEN r3 @@ [reached |-> FALSE, gateway |-> gw, rzp |-> seen]
        ELSE IF r4.err # ""
        THEN r4 @@ [reached |-> FALSE, gateway |-> gw, rzp |-> seen]
        ELSE IF ~_is_director_present(d6, movie)
        THEN Raise(DirectorMissing, d6) @@ Reached(gw, seen)
        ELSE Ok(d6) @@ Reached(gw, seen)

(* ---------------------------------------------- CrewMemberRequestSerializer *)
\* An e-mail address as it is typed is a name [base, cap, pad]; as text it is
\* its base when it has neither upper-case letters nor surrounding whitespace.
AsTyped(base) ==
    CASE base = "test@example.com" -> " Test@Example.com "
      [] base = "second@example.com" -> " Second@Example.com "
      [] OTHER -> " New@Example.com "
Address(email) == IF email.cap \/ email.pad THEN AsTyped(email.base) ELSE email.base

CrewRequestData(email, roles) == [email |-> email, roles |-> roles]

\* variant: the user is looked up under the address as it was typed
_create_new_user_as_typed(d, email) ==
    [user |-> Address(email), db |-> [d EXCEPT !.users = @ \cup {Address(email)}]]

\* [user, db]: the user of the address, created when there is none
_create_new_user(d, email) ==
    LET address == Address(lower(strip(email)))
    IN  IF address \in d.users THEN [user |-> address, db |-> d]
        ELSE [user |-> address, db |-> [d EXCEPT !.users = @ \cup {address}]]

CrewMemberRequestSerializer_create(d, requestor, movie, p) ==
    LET requestor_is_director_of_movie ==
            \E c \in d.crewMembers :
                c.profile = requestor /\ c.role = "Director" /\ c.movie = movie
        state == IF requestor_is_director_of_movie THEN "APPROVED"
                 ELSE "SUBMITTED"
        u == _create_new_user(d, p.email)
    IN  Ok([u.db EXCEPT !.crewMemberRequests = @ \cup
              {[requestor |-> requestor, movie |-> movie, user |-> u.user,
                role |-> p.roles[i], state |-> state] : i \in DOMAIN p.roles}])

(* ------------------------------------------- MovieReviewDetailSerializer *)
\* seconds after which a rating that is set can no longer be changed
FreezeSeconds == 9

Frozen == "Rating is now freezed"
ContentOrRating == "At least one of content or rating should be provided"

\* A review request's data: `has` holds the keys that are present; content and
\* rating are optional values (null is None).
ReviewPayload(has, content, rating, movie_id) ==
    [has |-> has, content |-> content, rating |-> rating, movie_id |-> movie_id]

\* dict.get(key)
Get(p, key) == IF key \in p.has THEN p[key] ELSE None

validate(p) ==
    IF "content" \notin p.has /\ "rating" \notin p.has
    THEN ContentOrRating
    ELSE ""

RECURSIVE SumSeq(_)
SumSeq(s) == IF s = <<>> THEN 0 ELSE Head(s) + SumSeq(Tail(s))

RECURSIVE GCD(_, _)
GCD(a, b) == IF b = 0 THEN a ELSE GCD(b, a % b)

\* the quotient sum / count, as the fraction in lowest terms
Quotient(sum, count) ==
    <<sum \div GCD(sum, count), count \div GCD(sum, count)>>

\* variant: the rows of the movie, those without a rating included
RatedReviews_all(rs, movie) ==
    SelectSeq(rs, LAMBDA r : r.movie = movie)

\* MovieRateReview.objects.filter(movie=movie).exclude(rating__isnull=True)
RatedReviews(rs, movie) ==
    SelectSeq(rs, LAMBDA r : r.movie = movie /\ r.rating # None)

\* the value a null rating contributes when it is not excluded
RatingOf(r) == IF r.rating = None THEN 0 ELSE r.rating[1]

\* .aggregate(Avg("rating")).get("rating__avg"): None over no rows
Avg(rows) ==
    IF rows = <<>> THEN None
    ELSE Some(Quotient(SumSeq([i \in DOMAIN rows |-> RatingOf(rows[i])]),
                       Len(rows)))

\* the Movie rows' audience_rating after the recomputation for `movie`
_update_movie_audience_rating(ar, rs, movie) ==
    [ar EXCEPT ![movie] = Avg(RatedReviews(rs, movie))]

\* variant: rated_at is stamped whether or not a rating is given
create_row_stamping(rs, user, p, t) ==
    Append(rs, [author |-> user, movie |-> p.movie_id,
                content |-> Get(p, "content"), rating |-> Get(p, "rating"),
                rated_at |-> Some(t)])

\* create(), up to super().create(): the reviews with the new row
create_row(rs, user, p, t) ==
    LET rating == Get(p, "rating")
        rated_at == IF rating # None THEN Some(t) ELSE None
    IN  Append(rs, [author |-> user, movie |-> p.movie_id,
                    content |-> Get(p, "content"), rating |-> rating,
                    rated_at |-> rated_at])

\* ModelSerializer.update: every key of the validated data is set on the row
SetFields(instance, p, rated_at) ==
    [instance EXCEPT
       !.content = IF "content" \in p.has THEN p.content ELSE @,
       !.rating = IF "rating" \in p.has THEN p.rating ELSE @,
       !.movie = IF "movie_id" \in p.has THEN p.movie_id ELSE @,
       !.rated_at = rated_at]

\* variant: a changed rating is written whenever it was set
update_row_unfrozen(rs, id, p, t) ==
    LET instance == rs[id]
        rating == Get(p, "rating")
    IN  IF rating # None /\ instance.rating # rating
        THEN [err |-> "",
              reviews |-> [rs EXCEPT ![id] = SetFields(instance, p, Some(t))]]
        ELSE [err |-> "",
              reviews |-> [rs EXCEPT ![id] = SetFields(instance, p,
                                                       instance.rated_at)]]

\* update(), up to super().update(): [err, reviews]
update_row(rs, id, p, t) ==
    LET instance == rs[id]
        rating == Get(p, "rating")
    IN  IF rating # None /\ instance.rating # rating
        THEN IF instance.rating # None
                /\ t > instance.rated_at[1] + FreezeSeconds
             THEN [err |-> Frozen, reviews |-> rs]
             ELSE [err |-> "",
                   reviews |-> [rs EXCEPT ![id] = SetFields(instance, p, Some(t))]]
        ELSE [err |-> "",
              reviews |-> [rs EXCEPT ![id] = SetFields(instance, p,
                                                       instance.rated_at)]]

\* outcome of a review handler: the rows and ratings it leaves, the row it wrote
MovieReviewDetailSerializer_create(rs, ar, user, p, t) ==
    LET rs1 == create_row(rs, user, p, t)
        instance == Len(rs1)
    IN  [err |-> "", reviews |-> rs1, id |-> instance,
         audience_rating |->
             _update_movie_audience_rating(ar, rs1, rs1[instance].movie)]

MovieReviewDetailSerializer_update(rs, ar, id, p, t) ==
    LET r == update_row(rs, id, p, t)
    IN  IF r.err # ""
        THEN [err |-> r.err, reviews |-> rs, id |-> id, audience_rating |-> ar]
        ELSE [err |-> "", reviews |-> r.reviews, id |-> id,
              audience_rating |->
                  _update_movie_audience_rating(ar, r.reviews,
                                                r.reviews[id].movie)]

\* requests that write reviews at the same time, and where each one stands:
\* "idle", "persisted" (its review row is written), "read" (it holds the
\* aggregate agg computed over the rated rows seen), "done" (the Movie is saved)
Writers == {"w1", "w2"}
Idle == [pc |-> "idle", movie |-> 0, seen |-> <<>>, agg |-> None]

NoReviewPayload == ReviewPayload({}, None, None, 0)
NoReview == [op |-> "init", id |-> 0, user |-> "none",
             payload |-> NoReviewPayload, err |-> ""]

(* ----------------------------------------------------------------- actions *)
\* the Director rows of a movie in store d
DirectorsOf(d, movie) ==
    {c \in d.crewMembers : c.movie = movie /\ c.role = "Director"}

\* What the last request was and how it ended: the handler and its arguments,
\* the error it raised ("" if none), whether it ran to its last statement and
\* had then left the movie without a Director row, and whether it had written
\* anything to the store by the time it ended.
Observe(op, movie, user, p, r) ==
    [op |-> op, movie |-> movie, user |-> user, payload |-> p, rzp |-> r.rzp,
     err |-> r.err, reached |-> r.reached,
     directorless |-> r.reached /\ DirectorsOf(r.db, movie) = {},
     dirty |-> r.db # DB]

NoPayload == Payload({}, Nm(""), <<>>, <<>>, EmptyDict, Nm(""), FALSE)

\* the forms a client types names in
English == Nm("english")
EnglishTyped == Typed("english", TRUE, TRUE)
GenreLists == { <<Typed("drama", TRUE, TRUE), Nm("drama"), Nm("horror")>>,
                <<Nm("comedy")>> }
RoleLists == { <<"Director">>, <<"Editor", "Actor">>, <<"Director", "Editor">> }
\* director contacts: a registered user, and somebody not registered yet
Directors == {DirectorData("second@example.com"), DirectorData(NewEmail)}
PackageNames == { Nm("basic"), Typed("gold", TRUE, TRUE), Nm("platinum") }

\* payloads of a create: lang, genres and roles are required
CreateWith(lang, genres, roles, dd, has, approved) ==
    Payload({"lang", "genres", "roles"} \cup has, lang, genres, roles, dd,
            Nm(""), approved)

\* inputs of a create: <<user, payload>>
CreateInputs ==
    \* who is credited: roles and director contact
    { <<u, CreateWith(English, <<Nm("drama")>>, rs, EmptyDict, {}, FALSE)>> :
        u \in Creators, rs \in RoleLists \cup {<<>>} }
    \cup
    { <<u, CreateWith(English, <<Nm("drama")>>, rs, dd, {"director"}, FALSE)>> :
        u \in Creators, rs \in RoleLists \cup {<<>>}, dd \in Directors }
    \cup
    \* what is catalogued: language and genres
    { <<"test@example.com", CreateWith(lang, gs, <<"Director">>, EmptyDict, {}, FALSE)>> :
        lang \in {English, EnglishTyped}, gs \in GenreLists \cup {<<>>} }
    \cup
    \* a payload that carries the approved flag itself
    { <<"second@example.com",
        CreateWith(English, <<Nm("drama")>>, <<"Editor", "Actor">>,
                   DirectorData("test@example.com"), {"director", "approved"}, TRUE)>> }

\* payloads of a partial update: every field is optional
UpdateWith(has, lang, genres, roles, dd, package, approved) ==
    Payload(has, lang, genres, roles, dd, package, approved)

CrewPayloads ==
    { UpdateWith({"roles", "director"}, Nm(""), <<>>, rs, dd, Nm(""), FALSE) :
        rs \in RoleLists, dd \in Directors }
    \cup
    { UpdateWith({"roles"}, Nm(""), <<>>, rs, EmptyDict, Nm(""), FALSE) :
        rs \in RoleLists \cup {<<>>} }
    \cup
    { UpdateWith({"director"}, Nm(""), <<>>, <<>>, dd, Nm(""), FALSE) :
        dd \in Directors }

CatalogPayloads ==
    { UpdateWith({"lang"}, lang, <<>>, <<>>, EmptyDict, Nm(""), FALSE) :
        lang \in {English, EnglishTyped} }
    \cup
    { UpdateWith({"genres"}, Nm(""), gs, <<>>, EmptyDict, Nm(""), FALSE) :
        gs \in GenreLists \cup {<<>>} }

PackagePayloads ==
    { UpdateWith({"package"}, Nm(""), <<>>, <<>>, EmptyDict, pk, FALSE) :
        pk \in PackageNames }
    \cup
    { UpdateWith({"package", "lang", "genres", "roles"}, EnglishTyped,
                 <<Nm("comedy")>>, <<"Editor", "Actor">>, EmptyDict, Nm("basic"), FALSE) }

ApprovalPayloads ==
    { UpdateWith({"approved"}, Nm(""), <<>>, <<>>, EmptyDict, Nm(""), a) :
        a \in BOOLEAN }
    \cup
    { UpdateWith({"approved", "roles"}, Nm(""), <<>>, <<"Director">>, EmptyDict,
                 Nm(""), FALSE) }

\* inputs of an update: <<user, payload>>
UpdateInputs ==
    (Creators \X CrewPayloads)
    \cup ({"test@example.com"} \X (CatalogPayloads \cup PackagePayloads))
    \cup ({"second@example.com"} \X ApprovalPayloads)

\* SubmissionSerializer.create
Create(user, p) ==
    /\ ops < MaxOps
    /\ Len(movies) < MaxMovies
    /\ LET r == MovieSerializer_create(DB, user, p)
       IN  /\ Commit(IF r.err = "" THEN r.db ELSE Rollback(DB, r.db))
           /\ last' = Observe("create", Len(movies) + 1, user, p, r)
           \* the new Movie row's audience_rating column
           /\ audience_rating' = IF r.err = ""
                                 THEN Append(audience_rating, Unrated)
                                 ELSE audience_rating
    /\ gatewayOrders' = gatewayOrders
    /\ ops' = ops + 1
    /\ UNCHANGED <<reviews, now, calls, lastReview>>

\* SubmissionSerializer.update
Update(movie, user, p, rzp) ==
    /\ ops < MaxOps
    /\ LET invalid == validate_payload(DB, movie, p)
           r == IF invalid # ""
                THEN Raise(invalid, DB) @@ NotReached
                ELSE MovieSerializer_update(DB, movie, user, p, rzp, gatewayOrders + 1)
       IN  /\ Commit(IF r.err = "" THEN r.db ELSE Rollback(DB, r.db))
           /\ gatewayOrders' = gatewayOrders + r.gateway
           /\ last' = Observe("update", movie, user, p, r)
    /\ ops' = ops + 1
    /\ UNCHANGED reviewVars

\* the admin site's delete of one CrewMember row
CrewMemberAdmin_delete(c) ==
    /\ ops < MaxOps
    /\ crewMembers' = crewMembers \ {c}
    /\ last' = [op |-> "admin", movie |-> c.movie, user |-> "none",
                payload |-> NoPayload, rzp |-> "none", err |-> "",
                reached |-> FALSE, directorless |-> FALSE, dirty |-> TRUE]
    /\ ops' = ops + 1
    /\ UNCHANGED <<users, profiles, languages, movies, orders,
                   crewMemberRequests, gatewayOrders>>
    /\ UNCHANGED reviewVars

Init ==
    /\ users = Creators
    /\ profiles = Creators
    /\ languages = {Nm("english")}
    /\ orders = << [owner |-> "test@example.com", order_id |-> None,
                    amount |-> None, receipt_number |-> None] >>
    /\ movies = << [state |-> "P", lang |-> Nm("english"), order |-> 1,
                    approved |-> Some(TRUE), package |-> None,
                    genres |-> {Nm("drama")}] >>
    /\ crewMembers = {[profile |-> "test@example.com", movie |-> 1,
                       role |-> "Director"]}
    /\ crewMemberRequests = {}
    /\ gatewayOrders = 0
    /\ last = [op |-> "init", movie |-> 0, user |-> "none", payload |-> NoPayload,
               rzp |-> "none", err |-> "", reached |-> FALSE,
               directorless |-> FALSE, dirty |-> FALSE]
    /\ ops = 0
    /\ reviews = <<>>
    /\ audience_rating = <<Unrated>>
    /\ now = 0
    /\ calls = [w \in Writers |-> Idle]
    /\ lastReview = NoReview

Next ==
    \/ \E in \in CreateInputs : Create(in[1], in[2])
    \/ \E movie \in DOMAIN movies, in \in UpdateInputs :
          \E rzp \in (IF "package" \in in[2].has THEN GatewayOutcomes ELSE {"none"}) :
              Update(movie, in[1], in[2], rzp)

Spec == Init /\ [][Next]_vars

\* the submission workflow next to an administrator who removes crew rows
NextAdmin ==
    \/ Next
    \/ \E c \in crewMembers : CrewMemberAdmin_delete(c)

SpecAdmin == Init /\ [][NextAdmin]_vars

(* ------------------------------------------------------ crew request actions *)
\* whom a crew request names, and for which roles
RequestEmails == { Nm("second@example.com"), Typed("second@example.com", TRUE, TRUE),
                   Nm(NewEmail), Typed(NewEmail, TRUE, FALSE) }
RequestRoles == { <<"Editor">>, <<"Editor", "Actor">>, <<"Director">> }

\* POST of a crew request by the logged-in user
CrewRequest(requestor, movie, p) ==
    /\ ops < MaxOps
    /\ LET r == CrewMemberRequestSerializer_create(DB, requestor, movie, p)
       IN  /\ Commit(r.db)
           /\ last' = [op |-> "crew_request", movie |-> movie, user |-> requestor,
                       payload |-> p, rzp |-> "none", err |-> r.err,
                       reached |-> TRUE, directorless |-> FALSE,
                       dirty |-> r.db # DB]
    /\ ops' = ops + 1
    /\ UNCHANGED gatewayOrders
    /\ UNCHANGED reviewVars

\* crew requests next to updates of the movie's crew and the admin site
NextCrew ==
    \/ \E requestor \in Creators, movie \in DOMAIN movies,
          email \in RequestEmails, roles \in RequestRoles :
            CrewRequest(requestor, movie, CrewRequestData(email, roles))
    \/ \E movie \in DOMAIN movies, in \in Creators \X CrewPayloads :
          Update(movie, in[1], in[2], "none")
    \/ \E c \in crewMembers : CrewMemberAdmin_delete(c)

SpecCrew == Init /\ [][NextCrew]_vars

(* ---------------------------------------------------------- review actions *)
\* ratings and texts the curators send
RatingValues == {1, 4}
\* the user who writes reviews
Curators == {"second@example.com"}
Text == Some("text")

ReviewCreatePayloads ==
    { ReviewPayload({"movie_id"}, None, None, 1) }
    \cup { ReviewPayload({"movie_id", "content"}, Text, None, 1) }
    \cup { ReviewPayload({"movie_id", "rating"}, None, rt, m) :
             rt \in {None} \cup {Some(v) : v \in RatingValues}, m \in {1, 2} }
    \cup { ReviewPayload({"movie_id", "content", "rating"}, Text, Some(4), 1) }

ReviewUpdatePayloads ==
    { ReviewPayload({"content"}, Text, None, 0) }
    \cup { ReviewPayload({"rating"}, None, rt, 0) :
             rt \in {None} \cup {Some(v) : v \in RatingValues} }
    \cup { ReviewPayload({"content", "rating"}, Text, Some(1), 0) }
    \cup { ReviewPayload({"movie_id"}, None, None, 2) }
    \cup { ReviewPayload({"rating", "movie_id"}, None, Some(4), 2) }

Rejected(e) == [err |-> e, reviews |-> reviews, id |-> 0,
                audience_rating |-> audience_rating]

\* POST of a review by `user`
ReviewCreate(user, p) ==
    /\ ops < MaxReviewOps
    /\ Len(reviews) < MaxReviews
    /\ LET invalid == validate(p)
           r == IF invalid # "" THEN Rejected(invalid)
                ELSE MovieReviewDetailSerializer_create(reviews, audience_rating,
                                                        user, p, now)
       IN  /\ reviews' = r.reviews
           /\ audience_rating' = r.audience_rating
           /\ lastReview' = [op |-> "create", id |-> r.id, user |-> user,
                             payload |-> p, err |-> r.err]
    /\ ops' = ops + 1
    /\ UNCHANGED <<users, profiles, languages, movies, orders, crewMembers,
                   crewMemberRequests, gatewayOrders, last, now, calls>>

\* PATCH of review `id`
ReviewUpdate(id, p) ==
    /\ ops < MaxReviewOps
    /\ LET invalid == validate(p)
           r == IF invalid # "" THEN Rejected(invalid)
                ELSE MovieReviewDetailSerializer_update(reviews, audience_rating,
                                                        id, p, now)
       IN  /\ reviews' = r.reviews
           /\ audience_rating' = r.audience_rating
           /\ lastReview' = [op |-> "update", id |-> id,
                             user |-> reviews[id].author,
                             payload |-> p, err |-> r.err]
    /\ ops' = ops + 1
    /\ UNCHANGED <<users, profiles, languages, movies, orders, crewMembers,
                   crewMemberRequests, gatewayOrders, last, now, calls>>

\* time passes: timezone.now() grows by d seconds
TickSteps == {FreezeSeconds, FreezeSeconds + 1}

Tick(d) ==
    /\ now + d <= MaxTime
    /\ now' = now + d
    /\ UNCHANGED <<users, profiles, languages, movies, orders, crewMembers,
                   crewMemberRequests, gatewayOrders, last, ops,
                   reviews, audience_rating, calls, lastReview>>

\* the fixture with a second movie, directed by the other creator
InitReview ==
    /\ users = Creators
    /\ profiles = Creators
    /\ languages = {Nm("english")}
    /\ orders = << [owner |-> "test@example.com", order_id |-> None,
                    amount |-> None, receipt_number |-> None],
                   [owner |-> "second@example.com", order_id |-> None,
                    amount |-> None, receipt_number |-> None] >>
    /\ movies = << [state |-> "P", lang |-> Nm("english"), order |-> 1,
                    approved |-> Some(TRUE), package |-> None,
                    genres |-> {Nm("drama")}],
                   [state |-> "P", lang |-> Nm("english"), order |-> 2,
                    approved |-> Some(TRUE), package |-> None,
                    genres |-> {Nm("drama")}] >>
    /\ crewMembers = {[profile |-> "test@example.com", movie |-> 1,
                       role |-> "Director"],
                      [profile |-> "second@example.com", movie |-> 2,
                       role |-> "Director"]}
    /\ crewMemberRequests = {}
    /\ gatewayOrders = 0
    /\ last = [op |-> "init", movie |-> 0, user |-> "none", payload |-> NoPayload,
               rzp |-> "none", err |-> "", reached |-> FALSE,
               directorless |-> FALSE, dirty |-> FALSE]
    /\ ops = 0
    /\ reviews = <<>>
    /\ audience_rating = <<Unrated, Unrated>>
    /\ now = 0
    /\ calls = [w \in Writers |-> Idle]
    /\ lastReview = NoReview

\* review writes handled one at a time
NextReview ==
    \/ \E user \in Curators, p \in ReviewCreatePayloads : ReviewCreate(user, p)
    \/ \E id \in DOMAIN reviews, p \in ReviewUpdatePayloads : ReviewUpdate(id, p)
    \/ \E d \in TickSteps : Tick(d)

SpecReview == InitReview /\ [][NextReview]_vars

(* ------------------------------------------------ concurrent review writes *)
\* Each request runs the statements of create() / update() in order; between
\* two statements another request may run its own.
RaceCreatePayloads ==
    { ReviewPayload({"movie_id", "rating"}, None, rt, m) :
        rt \in {None} \cup {Some(v) : v \in RatingValues}, m \in {1, 2} }

RaceUpdatePayloads ==
    { ReviewPayload({"rating"}, None, Some(v), 0) : v \in RatingValues }
    \cup { ReviewPayload({"content"}, Text, None, 0) }

Free(w) == calls[w].pc \in {"idle", "done"}

\* variant: the aggregate is taken again when the Movie is saved
SavedRating_fresh(c, rs) == Avg(RatedReviews(rs, c.movie))

\* movie.save() writes the audience_rating assigned from the aggregate read
SavedRating(c, rs) == c.agg

\* super().create(): the review row is written
PersistCreate(w, user, p) ==
    /\ ops < MaxReviewOps
    /\ Len(reviews) < MaxReviews
    /\ Free(w)
    /\ validate(p) = ""
    /\ reviews' = create_row(reviews, user, p, now)
    /\ calls' = [calls EXCEPT ![w] = [pc |-> "persisted", movie |-> p.movie_id,
                                      seen |-> <<>>, agg |-> None]]
    /\ lastReview' = [op |-> "create", id |-> Len(reviews) + 1, user |-> user,
                      payload |-> p, err |-> ""]
    /\ ops' = ops + 1
    /\ UNCHANGED <<users, profiles, languages, movies, orders, crewMembers,
                   crewMemberRequests, gatewayOrders, last, now, audience_rating>>

\* super().update(): the review row is written, unless the rating is frozen
PersistUpdate(w, id, p) ==
    /\ ops < MaxReviewOps
    /\ Free(w)
    /\ validate(p) = ""
    /\ LET r == update_row(reviews, id, p, now)
       IN  /\ reviews' = r.reviews
           /\ calls' = IF r.err # "" THEN calls
                       ELSE [calls EXCEPT ![w] =
                               [pc |-> "persisted", movie |-> r.reviews[id].movie,
                                seen |-> <<>>, agg |-> None]]
           /\ lastReview' = [op |-> "update", id |-> id,
                             user |-> reviews[id].author,
                             payload |-> p, err |-> r.err]
    /\ ops' = ops + 1
    /\ UNCHANGED <<users, profiles, languages, movies, orders, crewMembers,
                   crewMemberRequests, gatewayOrders, last, now, audience_rating>>

\* the aggregate query of _update_movie_audience_rating
ReadAggregate(w) ==
    /\ calls[w].pc = "persisted"
    /\ calls' = [calls EXCEPT ![w].pc = "read",
                              ![w].seen = RatedReviews(reviews, calls[w].movie),
                              ![w].agg = Avg(RatedReviews(reviews, calls[w].movie))]
    /\ UNCHANGED <<users, profiles, languages, movies, orders, crewMembers,
                   crewMemberRequests, gatewayOrders, last, ops, now,
                   reviews, audience_rating, lastReview>>

\* movie.save()
SaveMovie(w) ==
    /\ calls[w].pc = "read"
    /\ audience_rating' = [audience_rating EXCEPT ![calls[w].movie] =
                               SavedRating(calls[w], reviews)]
    /\ calls' = [calls EXCEPT ![w].pc = "done"]
    /\ UNCHANGED <<users, profiles, languages, movies, orders, crewMembers,
                   crewMemberRequests, gatewayOrders, last, ops, now,
                   reviews, lastReview>>

NextRace ==
    \/ \E w \in Writers, user \in Curators, p \in RaceCreatePayloads :
          PersistCreate(w, user, p)
    \/ \E w \in Writers, id \in DOMAIN reviews, p \in RaceUpdatePayloads :
          PersistUpdate(w, id, p)
    \/ \E w \in Writers : ReadAggregate(w)
    \/ \E w \in Writers : SaveMovie(w)

SpecRace == InitReview /\ [][NextRace]_vars
(* ------------------------------------------------------------------ claims *)
HasDirectorRole(roles) == \E i \in DOMAIN roles : roles[i] = "Director"
DirectorRow(movie, email) == [profile |-> email, movie |-> movie, role |-> "Director"]
Normalized(name) == MovieLanguageSerializer_validate_name(name)

\* C1: every stored Movie has exactly one CrewMember whose role is Director.
C1_ExactlyOneDirector ==
    \A m \in DOMAIN movies : Cardinality(DirectorsOf(DB, m)) = 1

\* an update has replaced the movie's director by a newly provisioned profile
C1_Witness ==
    /\ last.op = "update" /\ last.err = ""
    /\ "director" \in last.payload.has
    /\ DirectorsOf(DB, last.movie) = {DirectorRow(last.movie, NewEmail)}

\* C2: a Create whose role list contains "Director" succeeds with the Movie
\* approved and with exactly one Director row, the submitting user's, whatever
\* director contact the payload carries.
C2_DirectorCreatorApproved ==
    (last.op = "create" /\ HasDirectorRole(last.payload.roles)) =>
        /\ last.err = ""
        /\ movies[last.movie].approved = Some(TRUE)
        /\ DirectorsOf(DB, last.movie) = {DirectorRow(last.movie, last.user)}

\* such a Create, with somebody else's contact given as the director
C2_Witness ==
    /\ last.op = "create" /\ last.err = ""
    /\ HasDirectorRole(last.payload.roles)
    /\ "director" \in last.payload.has
    /\ last.payload.director.email # last.user

\* C3: a Create whose role list excludes "Director" and that supplies a
\* director contact leaves the Movie not approved, with a SUBMITTED
\* CrewMemberRequest of the creator for every role of the list and no
\* CrewMember row of the creator.
C3_NonDirectorCreate ==
    (/\ last.op = "create" /\ last.err = ""
     /\ ~HasDirectorRole(last.payload.roles)
     /\ "director" \in last.payload.has /\ last.payload.director.keys # {}) =>
        /\ movies[last.movie].approved # Some(TRUE)
        /\ \A r \in SeqToSet(last.payload.roles) :
             [requestor |-> last.user, movie |-> last.movie, user |-> last.user,
              role |-> r, state |-> "SUBMITTED"] \in crewMemberRequests
        /\ ~\E c \in crewMembers : c.movie = last.movie /\ c.profile = last.user

\* C4: a Create or Update that runs to its end and leaves the movie without a
\* Director row raises "Director must be provided", and the store is as it was
\* before the request.
C4_NoDirectorAborts ==
    [][ last'.directorless => (last'.err = DirectorMissing /\ DB' = DB) ]_vars

\* an Update of a movie whose Director row the admin site had removed: it had
\* written request rows when it found no director
C4_Witness ==
    /\ last.op = "update" /\ last.directorless /\ last.dirty
    /\ last.err = DirectorMissing
    /\ crewMemberRequests = {}

\* C5: an Update carrying a package for a Movie whose package is set is
\* rejected, store and gateway untouched; no step changes a package that is set.
C5_PackageWriteOnce ==
    [][ /\ (/\ last'.op = "update" /\ "package" \in last'.payload.has
            /\ movies[last'.movie].package # None) =>
               (/\ last'.err = "Cannot update package"
                /\ ~last'.dirty
                /\ DB' = DB
                /\ gatewayOrders' = gatewayOrders)
        /\ \A m \in DOMAIN movies :
               movies[m].package # None => movies'[m].package = movies[m].package
      ]_vars

\* a package was refused for a Movie that has one
C5_Witness ==
    /\ last.op = "update" /\ last.err = "Cannot update package"
    /\ movies[last.movie].package # None
    /\ orders[movies[last.movie].order].order_id # None

\* C6: when the gateway raises or answers with a status other than "created",
\* the Update fails having written nothing: package, order and every other
\* field of the store are as before.
C6_GatewayFailureCommitsNothing ==
    [][ (last'.op = "update" /\ last'.rzp \in {"failed", "raises"}) =>
           (/\ last'.err # ""
            /\ ~last'.dirty
            /\ DB' = DB
            /\ movies'[last'.movie].package = None
            /\ gatewayOrders' = gatewayOrders) ]_vars

\* the gateway answered "failed" to an Update that also carried other fields
C6_Witness ==
    /\ last.op = "update" /\ last.rzp = "failed"
    /\ last.payload.has = {"package", "lang", "genres", "roles"}
    /\ last.err = "Error creating Razorpay order"

\* C7: no two Language rows and no two Genre rows have the same normalized
\* name, and movies whose language names differ only in case or surrounding
\* whitespace reference the same row.
C7_NormalizedNamesUnique ==
    /\ \A a, b \in languages : Normalized(a) = Normalized(b) => a = b
    /\ \A a, b \in GenreRows : Normalized(a) = Normalized(b) => a = b
    /\ \A m1, m2 \in DOMAIN movies :
         Normalized(movies[m1].lang) = Normalized(movies[m2].lang)
             => movies[m1].lang = movies[m2].lang

\* C8: after a successful Create the Movie's genres hold one Genre row for
\* every distinct normalized genre name of the payload.
C8_GenresCreatedOnFirstUse ==
    (last.op = "create" /\ last.err = "") =>
        movies[last.movie].genres =
            {Normalized(last.payload.genres[i]) : i \in DOMAIN last.payload.genres}

\* the non-director roles user u holds or has requested on movie m in store d
RolesOf(d, m, u) ==
    {c.role : c \in {x \in d.crewMembers :
                       x.movie = m /\ x.profile = u /\ x.role # "Director"}}
    \cup {q.role : q \in {x \in d.crewMemberRequests : x.movie = m /\ x.user = u}}

\* C9: a successful Update replaces the genres, creator roles and director by
\* exactly those of the payload when the field is present (also when it is
\* empty), and leaves them alone when it is absent.
C9_PresentFieldsReplace ==
    [][ (last'.op = "update" /\ last'.err = "") =>
          LET m == last'.movie
              p == last'.payload
              u == last'.user
          IN  /\ IF "genres" \in p.has
                 THEN movies'[m].genres =
                          {Normalized(p.genres[i]) : i \in DOMAIN p.genres}
                 ELSE movies'[m].genres = movies[m].genres
              /\ IF "roles" \in p.has
                 THEN RolesOf(DB', m, u) = SeqToSet(p.roles) \ {"Director"}
                 ELSE \A v \in Emails : RolesOf(DB', m, v) = RolesOf(DB, m, v)
              /\ IF "director" \in p.has
                 THEN DirectorsOf(DB', m) =
                          (IF p.director.keys = {} THEN {}
                           ELSE {DirectorRow(m, p.director.email)})
                 ELSE DirectorsOf(DB', m) = DirectorsOf(DB, m)
      ]_vars

\* C10: no (user, movie, role) has both a CrewMember and a CrewMemberRequest row.
C10_CrewAndRequestExclusive ==
    ~\E c \in crewMembers, q \in crewMemberRequests :
        c.movie = q.movie /\ c.role = q.role /\ c.profile = q.user

(* ----------------------------------------------------------- review claims *)
\* the step handles a review request of kind op
ReviewStep(op) == ops' # ops /\ lastReview'.op = op

\* the step is an Update that carries a rating other than the review's
RatingChange ==
    /\ ReviewStep("update")
    /\ Get(lastReview'.payload, "rating") # None
    /\ Get(lastReview'.payload, "rating") # reviews[lastReview'.id].rating

\* more than FreezeSeconds have passed since the rating of review id was set
WindowOver(id) ==
    reviews[id].rating # None /\ now > reviews[id].rated_at[1] + FreezeSeconds

\* C11 (as the code has it): an Update whose rating differs from the current
\* one is rejected with the frozen-rating error, nothing mutated, when a rating
\* was set more than 9 seconds before; when no rating was set or at most 9
\* seconds have passed it succeeds and rated_at becomes now.
C11_FrozenAfterWindow ==
    [][ RatingChange =>
          LET id == lastReview'.id
          IN  IF WindowOver(id)
              THEN /\ lastReview'.err = Frozen
                   /\ reviews' = reviews
                   /\ audience_rating' = audience_rating
              ELSE /\ lastReview'.err = ""
                   /\ reviews'[id].rating = lastReview'.payload.rating
                   /\ reviews'[id].rated_at = Some(now)
      ]_vars

\* a changed rating was refused because its window had passed
C11_Witness ==
    /\ lastReview.op = "update" /\ lastReview.err = Frozen
    /\ reviews[lastReview.id].rating # None
    /\ lastReview.payload.rating # reviews[lastReview.id].rating
    /\ now > reviews[lastReview.id].rated_at[1] + FreezeSeconds

\* C11 (as stated): the differing rating is allowed only if no rating was set
\* or more than 9 seconds have passed since rated_at, and is rejected as
\* frozen, nothing mutated, within 9 seconds of the prior rating.
C11_FrozenWithinWindow ==
    [][ RatingChange =>
          LET id == lastReview'.id
          IN  IF reviews[id].rating = None \/ WindowOver(id)
              THEN /\ lastReview'.err = ""
                   /\ reviews'[id].rated_at = Some(now)
              ELSE /\ lastReview'.err = Frozen
                   /\ reviews' = reviews
      ]_vars

\* C12: once more than 9 seconds have passed since rated_at no step changes the
\* review's rating, and an Update to a different rating before that moment is
\* accepted and stamps rated_at anew.
C12_ImmutableAfterWindow ==
    [][ /\ \A id \in DOMAIN reviews :
              WindowOver(id) => reviews'[id].rating = reviews[id].rating
        /\ (RatingChange /\ ~WindowOver(lastReview'.id)) =>
              (/\ lastReview'.err = ""
               /\ reviews'[lastReview'.id].rated_at = Some(now))
      ]_vars

RECURSIVE SumRatings(_)
SumRatings(S) ==
    IF S = {} THEN 0
    ELSE LET i == CHOOSE x \in S : TRUE
         IN  reviews[i].rating[1] + SumRatings(S \ {i})

\* the rated reviews of movie m
RatedOf(m) == {i \in DOMAIN reviews : reviews[i].movie = m /\ reviews[i].rating # None}

\* value v (null, or a fraction) is the mean of the ratings of movie m
IsMeanOf(v, m) ==
    IF RatedOf(m) = {} THEN v = None
    ELSE /\ v # None
         /\ v[1][1] * Cardinality(RatedOf(m)) = SumRatings(RatedOf(m)) * v[1][2]

\* C13: after a successful review Create or Update, handled one at a time, the
\* audience_rating of the review's movie is the mean of the non-null ratings
\* of that movie's reviews (null when it has none).
C13_AudienceRatingIsMean ==
    (lastReview.op \in {"create", "update"} /\ lastReview.err = "") =>
        IsMeanOf(audience_rating[reviews[lastReview.id].movie],
                 reviews[lastReview.id].movie)

\* two reviews of one movie with different ratings: the mean is no rating given
C13_Witness ==
    /\ lastReview.err = "" /\ lastReview.op \in {"create", "update"}
    /\ Len(reviews) = 2
    /\ reviews[1].movie = reviews[2].movie
    /\ reviews[1].rating = Some(1) /\ reviews[2].rating = Some(4)
    /\ audience_rating[reviews[1].movie] = Some(<<5, 2>>)

\* C15: a review Create whose content and rating are both absent or null is
\* rejected: no review is stored and no audience_rating is recomputed.
C15_ContentOrRatingRequired ==
    [][ (/\ ReviewStep("create")
         /\ Get(lastReview'.payload, "content") = None
         /\ Get(lastReview'.payload, "rating") = None) =>
            (/\ lastReview'.err # ""
             /\ reviews' = reviews
             /\ audience_rating' = audience_rating)
      ]_vars

\* C17: rated_at changes only in a step that writes a numeric rating; a Create
\* sets it to now exactly when it carries a non-null rating; an Update with no
\* rating, a null rating or the current rating keeps it and is never refused
\* as frozen.
C17_RatedAtOnlyWithRating ==
    [][ /\ \A id \in DOMAIN reviews :
              reviews'[id].rated_at # reviews[id].rated_at =>
                  (/\ ReviewStep("update") /\ lastReview'.id = id
                   /\ Get(lastReview'.payload, "rating") # None
                   /\ reviews'[id].rating = lastReview'.payload.rating)
        /\ (ReviewStep("create") /\ lastReview'.err = "") =>
              reviews'[lastReview'.id].rated_at =
                  (IF Get(lastReview'.payload, "rating") # None
                   THEN Some(now) ELSE None)
        /\ (/\ ReviewStep("update")
            /\ \/ Get(lastReview'.payload, "rating") = None
               \/ Get(lastReview'.payload, "rating") = reviews[lastReview'.id].rating) =>
              (/\ lastReview'.err # Frozen
               /\ reviews'[lastReview'.id].rated_at = reviews[lastReview'.id].rated_at)
      ]_vars

\* an Update with the rating the review has, after its window had passed
C17_Witness ==
    /\ lastReview.op = "update" /\ lastReview.err = ""
    /\ "rating" \in lastReview.payload.has
    /\ lastReview.payload.rating # None
    /\ lastReview.payload.rating = reviews[lastReview.id].rating
    /\ reviews[lastReview.id].content = Text
    /\ now > reviews[lastReview.id].rated_at[1] + FreezeSeconds

\* the mean of the ratings of rows, as a sum and a count (rows non-empty)
MeanOfRows(v, rows) ==
    IF rows = <<>> THEN v = None
    ELSE /\ v # None
         /\ v[1][1] * Len(rows) =
                SumSeq([i \in DOMAIN rows |-> rows[i].rating[1]]) * v[1][2]

\* C14: a request saves the mean of the rated reviews it saw when it read the
\* aggregate, whatever other requests have written since; so two concurrent
\* writes on one movie can end with an audience_rating that is not the mean of
\* the ratings then stored (the witness).
C14_SavesItsOwnSnapshot ==
    [][ \A w \in Writers :
          (calls[w].pc = "read" /\ calls'[w].pc = "done") =>
             /\ \A i \in DOMAIN calls[w].seen : calls[w].seen[i].rating # None
             /\ MeanOfRows(audience_rating'[calls[w].movie], calls[w].seen)
      ]_vars

\* both requests have completed on the same movie and its audience_rating is
\* not the mean of its reviews' ratings
C14_Witness ==
    /\ \A w \in Writers : calls[w].pc = "done"
    /\ calls["w1"].movie = calls["w2"].movie
    /\ Len(RatedReviews(reviews, calls["w1"].movie)) = 2
    /\ ~IsMeanOf(audience_rating[calls["w1"].movie], calls["w1"].movie)

(* ------------------------------------------------------------- crew claims *)
\* C16: in the movie detail every profile with CrewMember rows on the movie
\* has exactly one crew entry, whose roles are those of its rows, each once;
\* no other entry exists. This holds in whatever order the rows are read.
C16_CrewGroupedByProfile ==
    \A m \in DOMAIN movies :
        \A rows \in Orderings(crewmember_set(DB, m)) :
            LET data == get_crew(rows)
                RowsOf(profile) == {c \in crewmember_set(DB, m) : c.profile = profile}
            IN  /\ \A c \in crewmember_set(DB, m) :
                      Cardinality({i \in DOMAIN data :
                                     data[i].profile = c.profile}) = 1
                /\ \A i \in DOMAIN data :
                      /\ RowsOf(data[i].profile) # {}
                      /\ Len(data[i].roles) = Cardinality(RowsOf(data[i].profile))
                      /\ SeqToSet(data[i].roles) =
                             {c.role : c \in RowsOf(data[i].profile)}

\* a movie with the rows of two profiles, one of them with two roles
C16_Witness ==
    \E m \in DOMAIN movies :
        \E c1, c2, c3 \in crewmember_set(DB, m) :
            /\ c1.profile = c2.profile /\ c1.role # c2.role
            /\ c3.profile # c1.profile

\* the step handles a crew request
CrewRequestStep == ops' # ops /\ last'.op = "crew_request"

\* C18: a crew request adds one CrewMemberRequest per role of the request, all
\* in the one step, all for the user of the lower-cased address (registered in
\* the same step if there was none), each APPROVED if the requestor has the
\* movie's Director row at that moment and SUBMITTED otherwise; CrewMember and
\* Profile rows are left as they were.
C18_OneRequestPerRole ==
    [][ CrewRequestStep =>
          LET p == last'.payload
              target == p.email.base
              state == IF DirectorRow(last'.movie, last'.user) \in crewMembers
                       THEN "APPROVED" ELSE "SUBMITTED"
          IN  /\ last'.err = ""
              /\ crewMemberRequests' = crewMemberRequests \cup
                    {[requestor |-> last'.user, movie |-> last'.movie,
                      user |-> target, role |-> r, state |-> state] :
                        r \in SeqToSet(p.roles)}
              /\ users' = users \cup {target}
              /\ crewMembers' = crewMembers
              /\ profiles' = profiles
              /\ movies' = movies /\ orders' = orders /\ languages' = languages
      ]_vars

\* the director has requested two roles for somebody whose address, typed with
\* capitals, was not registered; and a request of a non-director stands too
C18_Witness ==
    /\ last.op = "crew_request"
    /\ last.payload.email = Typed(NewEmail, TRUE, FALSE)
    /\ Len(last.payload.roles) = 2
    /\ NewEmail \in users /\ NewEmail \notin profiles
    /\ \A r \in {"Editor", "Actor"} :
          [requestor |-> last.user, movie |-> last.movie, user |-> NewEmail,
           role |-> r, state |-> "APPROVED"] \in crewMemberRequests
    /\ \E q \in crewMemberRequests : q.state = "SUBMITTED"

\* C19: when a Create or Update has approved the Movie because the acting
\* user's role list contains "Director", the Movie's Director row is the
\* acting user's.
C19_ApprovedMeansActingDirector ==
    (/\ last.op \in {"create", "update"} /\ last.err = ""
     /\ "roles" \in last.payload.has /\ HasDirectorRole(last.payload.roles)
     /\ (last.op = "create" \/ "approved" \notin last.payload.has)) =>
        /\ movies[last.movie].approved = Some(TRUE)
        /\ DirectorsOf(DB, last.movie) = {DirectorRow(last.movie, last.user)}

\* C20: a Create or Update that attaches the creator's roles leaves alone the
\* CrewMember rows of other profiles, the Director row (when the payload names
\* no director), the CrewMemberRequest rows whose requestor or user is not the
\* creator, and every row of other movies.
C20_OnlyCreatorRowsRewritten ==
    [][ (/\ ops' # ops /\ last'.op \in {"create", "update"} /\ last'.err = ""
         /\ "roles" \in last'.payload.has /\ last'.payload.roles # <<>>) =>
          LET m == last'.movie
              u == last'.user
              OthersCrew(S) ==
                  {c \in S : \/ c.movie # m
                             \/ (c.profile # u /\ c.role # "Director")
                             \/ (c.role = "Director"
                                 /\ "director" \notin last'.payload.has)}
              OthersRequests(S) ==
                  {q \in S : q.movie # m \/ q.requestor # u \/ q.user # u}
          IN  /\ OthersCrew(crewMembers') = OthersCrew(crewMembers)
              /\ OthersRequests(crewMemberRequests') =
                     OthersRequests(crewMemberRequests)
      ]_vars
====
